---- MODULE Spec2Model ----
(***************************************************************************)
(* A model of the URDF viewer's two utilities:                             *)
(*   - the Xacro include pre-assembly of the backend (processIncludes and  *)
(*     the /api/xacro-to-urdf handler), and                                *)
(*   - the asset path matcher of the frontend (findFileInMap).             *)
(*                                                                         *)
(* Text is modelled as a sequence of lexemes.  A lexeme is a piece of      *)
(* text that the regular expressions of the code treat as a unit: the      *)
(* literal parts of the patterns, and runs of characters between them.     *)
(* The operators below say, for each lexeme, the only character facts the  *)
(* patterns ask about: does it hold a double quote, does it end with '>',  *)
(* is it a line terminator, does it hold a '/'.                            *)
(***************************************************************************)
EXTENDS Integers, Sequences, FiniteSets, TLC

(***************************************************************************)
(* Lexemes                                                                 *)
(***************************************************************************)
IncOpen    == "<xacro:include filename=\""
IncClose   == "\"/>"
XmlOpen    == "<?xml"
XmlAttr    == " version=\"1.0\""
PiEnd      == "?>"
RobotOpen  == "<robot"
RobotAttr  == " name=\"r\""
RobotSfx   == "_arm"
Gt         == ">"
RobotClose == "</robot>"
Nl         == "\n"
Txt        == "text"
Elem       == "<link/>"
FindOpen   == "$(find "
ArgOpen    == "$(arg "
RParen     == ")"
Slash      == "/"
DotDot     == ".."
NotFoundOpen  == "<!-- File not found: "
NotFoundClose == " -->"

\* the lexeme holds a double quote character
HasQuote(l) == l \in {IncOpen, IncClose, XmlAttr, RobotAttr}

\* the lexeme holds a '>' character (always its last character)
HasGt(l) == l \in {IncClose, PiEnd, Gt, RobotClose, Elem, NotFoundClose}

\* the lexeme is a line terminator, which '.' does not match
IsNl(l) == l = Nl

RECURSIVE Flatten(_)
Flatten(ss) == IF ss = <<>> THEN <<>> ELSE Head(ss) \o Flatten(Tail(ss))

Min(S) == CHOOSE x \in S : \A y \in S : x <= y
Max(S) == CHOOSE x \in S : \A y \in S : x >= y

(***************************************************************************)
(* includeRegex = /<xacro:include\s+filename=\"([^\"]+)\"\s*\/>/g           *)
(* A match starts at an IncOpen, takes one or more lexemes without a       *)
(* quote as the filename and ends at an IncClose.                          *)
(***************************************************************************)
IncludeEnds(s, i) ==
    { j \in (i + 2)..Len(s) :
        /\ s[i] = IncOpen
        /\ s[j] = IncClose
        /\ \A k \in (i + 1)..(j - 1) : ~HasQuote(s[k]) }

MatchStarts(s) == { i \in 1..Len(s) : IncludeEnds(s, i) # {} }

HasInclude(s) == MatchStarts(s) # {}

\* the leftmost match of includeRegex in s: its span and its capture group
FirstInclude(s) ==
    LET i == Min(MatchStarts(s))
        j == Min(IncludeEnds(s, i))
    IN  [start |-> i, end |-> j, filename |-> SubSeq(s, i + 1, j - 1)]

(***************************************************************************)
(* The three replacements that strip an included file                      *)
(***************************************************************************)
\* the end of the first line of s: the index before its first line terminator
LineEnd(s) ==
    IF \E k \in 1..Len(s) : IsNl(s[k])
    THEN Min({ k \in 1..Len(s) : IsNl(s[k]) }) - 1
    ELSE Len(s)

\* /<\?xml.*\?>/ at the head of s: greedy, the last "?>" of the line
XmlEnds(s) == { j \in 2..LineEnd(s) : s[1] = XmlOpen /\ s[j] = PiEnd }

RECURSIVE StripXml(_)
StripXml(s) ==
    IF s = <<>> THEN <<>>
    ELSE IF XmlEnds(s) # {}
         THEN StripXml(SubSeq(s, Max(XmlEnds(s)) + 1, Len(s)))
         ELSE <<Head(s)>> \o StripXml(Tail(s))

\* /<robot.*?>/ at the head of s: lazy, the first '>' of the line
RobotEnds(s) == { j \in 2..LineEnd(s) : s[1] = RobotOpen /\ HasGt(s[j]) }

RECURSIVE StripRobotOpen(_)
StripRobotOpen(s) ==
    IF s = <<>> THEN <<>>
    ELSE IF RobotEnds(s) # {}
         THEN StripRobotOpen(SubSeq(s, Min(RobotEnds(s)) + 1, Len(s)))
         ELSE <<Head(s)>> \o StripRobotOpen(Tail(s))

\* /<\/robot>/g
StripRobotClose(s) == SelectSeq(s, LAMBDA l : l # RobotClose)

Strip(includeContent) == StripRobotClose(StripRobotOpen(StripXml(includeContent)))

(***************************************************************************)
(* Paths.  A path of the filesystem is the sequence of its segments from   *)
(* the filesystem root, normalised as path.resolve and path.join do.       *)
(***************************************************************************)
\* the text of a lexeme cut at its '/' characters
PathAtoms(l) ==
    CASE l = RobotClose -> <<"<", Slash, "robot>">>
      [] l = Elem       -> <<"<link", Slash, ">">>
      [] OTHER          -> <<l>>

RECURSIVE SplitAt(_, _, _)
SplitAt(atoms, segs, cur) ==
    IF atoms = <<>> THEN Append(segs, cur)
    ELSE IF Head(atoms) = Slash
         THEN SplitAt(Tail(atoms), Append(segs, cur), "")
         ELSE SplitAt(Tail(atoms), segs, cur \o Head(atoms))

\* text.split('/')
Segments(text) ==
    SplitAt(Flatten([i \in 1..Len(text) |-> PathAtoms(text[i])]), <<>>, "")

\* resolution of '.', '..' and empty segments on top of the path acc
RECURSIVE Normalize(_, _)
Normalize(acc, segs) ==
    IF segs = <<>> THEN acc
    ELSE IF Head(segs) \in {"", "."} THEN Normalize(acc, Tail(segs))
    ELSE IF Head(segs) = DotDot
         THEN Normalize(IF acc = <<>> THEN <<>> ELSE SubSeq(acc, 1, Len(acc) - 1),
                        Tail(segs))
         ELSE Normalize(Append(acc, Head(segs)), Tail(segs))

IsAbsolute(text) == text # <<>> /\ Head(text) = Slash

\* path.resolve(dir, text)
PathResolve(dir, text) ==
    IF IsAbsolute(text) THEN Normalize(<<>>, Segments(text))
    ELSE Normalize(dir, Segments(text))

\* path.join(dir, a, b)
PathJoin(dir, a, b) == Normalize(dir, Segments(a) \o Segments(b))

\* path.dirname(p)
Dirname(p) == IF p = <<>> THEN <<>> ELSE SubSeq(p, 1, Len(p) - 1)

IsPrefix(p, q) == Len(p) <= Len(q) /\ SubSeq(q, 1, Len(p)) = p

\* path.resolve(__dirname, '..', 'public'), and the directory the server runs in
PublicDir == <<"app", "public">>
Cwd       == <<"app">>

(***************************************************************************)
(* The target of a directive: lines 73-84 of processIncludes               *)
(***************************************************************************)
\* filename.includes('$(find ')
HasFind(filename) == \E i \in 1..Len(filename) : filename[i] = FindOpen

\* the places where /\$\(find\s+([^)]+)\)/ matches: a "$(find ", one or more
\* characters other than ')', and a ')'
PkgEnds(filename, i) ==
    { j \in (i + 2)..Len(filename) :
        /\ filename[i] = FindOpen
        /\ filename[j] = RParen
        /\ \A k \in (i + 1)..(j - 1) : filename[k] # RParen }

PkgStarts(filename) == { i \in 1..Len(filename) : PkgEnds(filename, i) # {} }

\* pkgMatch[1]
PkgName(filename) ==
    LET i == Min(PkgStarts(filename))
    IN  SubSeq(filename, i + 1, Min(PkgEnds(filename, i)) - 1)

\* filename.split(')').pop(): the text after the last ')'
RestOf(filename) ==
    LET parens == { k \in 1..Len(filename) : filename[k] = RParen }
    IN  IF parens = {} THEN filename
        ELSE SubSeq(filename, Max(parens) + 1, Len(filename))

\* a placeholder that shows the filename after the macro was expanded
PlaceholderExpanded(filename) ==
    <<NotFoundOpen>> \o RestOf(filename) \o <<NotFoundClose>>

\* line 99
Placeholder(filename) == <<NotFoundOpen>> \o filename \o <<NotFoundClose>>

\* filePath, as the absolute path that fs.existsSync and fs.readFileSync open
TargetPath(filename, workingDir) ==
    IF HasFind(filename)
    THEN IF PkgStarts(filename) # {}
         THEN PathJoin(PublicDir, PkgName(filename), RestOf(filename))
         ELSE PathResolve(Cwd, filename)
    ELSE PathResolve(workingDir, filename)

(***************************************************************************)
(* The filesystem: a function from the paths of its files to their state.  *)
(* A directory is a proper prefix of the path of a file.                   *)
(***************************************************************************)
IsDirectory(fileSystem, p) == \E q \in DOMAIN fileSystem : q # p /\ IsPrefix(p, q)

\* fs.existsSync(p)
ExistsSync(fileSystem, p) == p \in DOMAIN fileSystem \/ IsDirectory(fileSystem, p)

\* fs.readFileSync(p, 'utf8'): the content, or the error it throws
ReadFileSync(fileSystem, p) ==
    IF IsDirectory(fileSystem, p)
    THEN [ok |-> FALSE, content |-> <<>>,
          message |-> <<"EISDIR: illegal operation on a directory, read">>]
    ELSE IF p \notin DOMAIN fileSystem
    THEN [ok |-> FALSE, content |-> <<>>,
          message |-> <<"ENOENT: no such file or directory, open">>]
    ELSE IF ~fileSystem[p].readable
    THEN [ok |-> FALSE, content |-> <<>>,
          message |-> <<"EACCES: permission denied, open">>]
    ELSE [ok |-> TRUE, content |-> fileSystem[p].content, message |-> <<>>]

(***************************************************************************)
(* processIncludes as a function: the text it returns, or the error it     *)
(* throws.  depth counts the nested calls, of which the call stack holds   *)
(* at most stackLimit.                                                     *)
(***************************************************************************)
Returns(text) == [ok |-> TRUE, text |-> text, message |-> <<>>]
Throws(message) == [ok |-> FALSE, text |-> <<>>, message |-> message]

RECURSIVE ProcessIncludes(_, _, _, _, _)
ProcessIncludes(fileSystem, content, workingDir, depth, stackLimit) ==
    IF ~HasInclude(content) THEN Returns(content)
    ELSE
      LET m        == FirstInclude(content)
          filePath == TargetPath(m.filename, workingDir)
          rd       == ReadFileSync(fileSystem, filePath)
          replaced ==
              IF ~ExistsSync(fileSystem, filePath) THEN Returns(Placeholder(m.filename))
              ELSE IF ~rd.ok THEN Throws(rd.message)
              ELSE IF depth >= stackLimit
                   THEN Throws(<<"Maximum call stack size exceeded">>)
              ELSE ProcessIncludes(fileSystem, Strip(rd.content), Dirname(filePath),
                                   depth + 1, stackLimit)
          tail     == ProcessIncludes(fileSystem,
                                      SubSeq(content, m.end + 1, Len(content)),
                                      workingDir, depth, stackLimit)
      IN  IF ~replaced.ok THEN replaced
          ELSE IF ~tail.ok THEN tail
          ELSE Returns(SubSeq(content, 1, m.start - 1) \o replaced.text \o tail.text)

(***************************************************************************)
(* The backend: one request to /api/xacro-to-urdf at a time.               *)
(*   files      the filesystem, fixed while the server runs                *)
(*   pc         "idle": no request yet; "assembling": inside               *)
(*              processIncludes; "done": the handler has returned;         *)
(*              "crashed": an error left the handler uncaught              *)
(*   query      req.query.file of the request being served                  *)
(*   stack      the activations of processIncludes, outermost first; each  *)
(*              holds its workingDir, the file its content came from, the  *)
(*              text String.replace has produced so far and the text it    *)
(*              has not scanned yet                                         *)
(*   responses  what the handler has sent for this request                  *)
(*   call       the locals of the latest call of the replace callback, and  *)
(*              the text that follows its match                             *)
(*   readLog    the paths given to fs.readFileSync for this request         *)
(***************************************************************************)
VARIABLES files, pc, query, stack, responses, call, readLog

(***************************************************************************)
(* The frontend's lookup of an asset among the dropped files.              *)
(*   fileMap     the Map of getAllFiles: its entries in insertion order     *)
(*   targetPath  the path the URDF names                                    *)
(*   found       what findFileInMap returned                                *)
(*   lookup      "ready" before the call, "returned" after it               *)
(***************************************************************************)
VARIABLES fileMap, targetPath, found, lookup

(***************************************************************************)
(* The App component: its React state and what it has in flight.           *)
(*   robot, urdfContent, loading, error, showCollision, hasCollision        *)
(*               the state of the useState hooks                            *)
(*   lastDeps    the [urdfContent, showCollision] of the last run of the    *)
(*               parse effect                                               *)
(*   fetches     the fetches of sample.urdf that have not settled           *)
(*   reads       the contents of the files a FileReader is still reading    *)
(*   timers      the 10 ms timers of the effect runs, in firing order, each *)
(*               with the urdfContent and showCollision its closure holds   *)
(*   managers    the effect runs whose LoadingManager is still loading      *)
(*   runs        the number of effect runs that started a load              *)
(*   events      the number of user events so far                           *)
(*   late        the latest timer or manager callback: the run it belongs   *)
(*               to, the runs started by then, and whether it changed       *)
(*               robot, loading or error                                    *)
(***************************************************************************)
VARIABLES robot, urdfContent, loading, error, showCollision, hasCollision,
          lastDeps, fetches, reads, timers, managers, runs, events, late

(***************************************************************************)
(* The structure tree and its layout.                                      *)
(*   children      the tree of buildTreeData: the child ids of each node   *)
(*                 id, in order; node 1 is the root                         *)
(*   node          the fields x, y, width, height and collapsed of each     *)
(*                 TreeNodeData                                             *)
(*   collapsedIds  the set given to the latest calculateLayout              *)
(*   totalWidth    what the latest calculateLayout returned                 *)
(*   layouts       "built" before the first calculateLayout, then "laid",   *)
(*                 and "relaid" once the collapse state has changed         *)
(***************************************************************************)
VARIABLES children, node, collapsedIds, totalWidth, layouts

(***************************************************************************)
(* getAllFiles.                                                            *)
(*   dropped   the entries the drop holds: the kind of each entry, by the  *)
(*             names on its way from the drop                              *)
(*   itemList  dataTransferItemList: the entry of each item, or NoEntry    *)
(*   queue     the queue of line 4                                         *)
(*   allFiles  the fileMap of line 3, in insertion order                   *)
(*   walk      where getAllFiles is: "idle", "called", "loop", "file"      *)
(*             (awaiting file()), "readEntries" (awaiting a batch),        *)
(*             "returned" or "rejected"                                    *)
(*   entry     the entry shifted last                                      *)
(*   entries   the entries readAllEntries has collected                    *)
(*   reader    what the directory reader has still to deliver              *)
(*   visited   the entries shifted so far, in order                        *)
(*   batches   the lengths of the batches delivered so far                 *)
(***************************************************************************)
VARIABLES dropped, itemList, queue, allFiles, walk, entry, entries, reader, visited, batches

serverVars == <<files, pc, query, stack, responses, call, readLog>>
filesVars  == <<dropped, itemList, queue, allFiles, walk, entry, entries, reader, visited,
                batches>>
matchVars  == <<fileMap, targetPath, found, lookup>>
layoutVars == <<children, node, collapsedIds, totalWidth, layouts>>
appVars    == <<robot, urdfContent, loading, error, showCollision, hasCollision,
               lastDeps, fetches, reads, timers, managers, runs, events, late>>

\* the state of the frontend, which the backend leaves alone
frontendVars == <<matchVars, appVars, layoutVars, filesVars>>

vars == <<serverVars, matchVars, appVars, layoutVars, filesVars>>

NoQuery == [present |-> FALSE, file |-> <<>>]

NoCall == [outcome |-> "none", filename |-> <<>>, workingDir |-> <<>>,
           filePath |-> <<>>, depth |-> 0, includeContent |-> <<>>,
           stripped |-> <<>>, after |-> <<>>]

\* the V8 call stack holds this many nested processIncludes calls
MaxStack == 4

Top == stack[Len(stack)]

Response(status, ctype, body) == [status |-> status, ctype |-> ctype, body |-> body]

\* a handler without the catch block: the error leaves it and nothing is sent
HandlerNoCatch(message) == [pc |-> "crashed", responses |-> <<>>]

\* lines 129-132: the catch block of the handler
HandlerCatch(message) ==
    [pc |-> "done", responses |-> <<Response(500, "default", message)>>]

RangeError == <<"Maximum call stack size exceeded">>

\* line 116
FullPath(q) == PathResolve(PublicDir, q.file)

Fresh ==
    /\ pc = "idle"
    /\ UNCHANGED frontendVars
    /\ call' = NoCall
    /\ UNCHANGED files

\* line 113: no file parameter, or an empty one
Request400(q) ==
    /\ Fresh
    /\ ~q.present \/ q.file = <<>>
    /\ query' = q
    /\ pc' = "done"
    /\ responses' = <<Response(400, "default", <<"No file specified">>)>>
    /\ stack' = <<>>
    /\ readLog' = {}

\* lines 118-120
Request404(q) ==
    /\ Fresh
    /\ q.present /\ q.file # <<>>
    /\ ~ExistsSync(files, FullPath(q))
    /\ query' = q
    /\ pc' = "done"
    /\ responses' = <<Response(404, "default", <<"File not found: ">> \o q.file)>>
    /\ stack' = <<>>
    /\ readLog' = {}

\* lines 122-124 and 129-132: the top-level read throws
RequestReadError(q) ==
    /\ Fresh
    /\ q.present /\ q.file # <<>>
    /\ ExistsSync(files, FullPath(q))
    /\ ~ReadFileSync(files, FullPath(q)).ok
    /\ query' = q
    /\ pc' = HandlerCatch(ReadFileSync(files, FullPath(q)).message).pc
    /\ responses' = HandlerCatch(ReadFileSync(files, FullPath(q)).message).responses
    /\ stack' = <<>>
    /\ readLog' = {FullPath(q)}

\* RequestAssemble with the wrapper of the requested file stripped as well
RequestAssembleStripped(q) ==
    /\ Fresh
    /\ q.present /\ q.file # <<>>
    /\ ExistsSync(files, FullPath(q))
    /\ ReadFileSync(files, FullPath(q)).ok
    /\ query' = q
    /\ pc' = "assembling"
    /\ responses' = <<>>
    /\ stack' = <<[workingDir |-> Dirname(FullPath(q)), file |-> FullPath(q),
                   out |-> <<>>,
                   rest |-> Strip(ReadFileSync(files, FullPath(q)).content)]>>
    /\ readLog' = {FullPath(q)}

\* lines 122-125: the top-level file is read and processIncludes is entered
RequestAssemble(q) ==
    /\ Fresh
    /\ q.present /\ q.file # <<>>
    /\ ExistsSync(files, FullPath(q))
    /\ ReadFileSync(files, FullPath(q)).ok
    /\ query' = q
    /\ pc' = "assembling"
    /\ responses' = <<>>
    /\ stack' = <<[workingDir |-> Dirname(FullPath(q)), file |-> FullPath(q),
                   out |-> <<>>, rest |-> ReadFileSync(files, FullPath(q)).content]>>
    /\ readLog' = {FullPath(q)}

\* the locals of the replace callback for the next match of the top activation
NextCall ==
    LET m  == FirstInclude(Top.rest)
        fp == TargetPath(m.filename, Top.workingDir)
        rd == ReadFileSync(files, fp)
    IN  [filename |-> m.filename, workingDir |-> Top.workingDir, filePath |-> fp,
         depth |-> Len(stack), includeContent |-> rd.content,
         stripped |-> Strip(rd.content),
         before |-> SubSeq(Top.rest, 1, m.start - 1),
         after |-> SubSeq(Top.rest, m.end + 1, Len(Top.rest)),
         exists |-> ExistsSync(files, fp), read |-> rd]

Locals(c, outcome) ==
    [outcome |-> outcome, filename |-> c.filename, workingDir |-> c.workingDir,
     filePath |-> c.filePath, depth |-> c.depth,
     includeContent |-> c.includeContent, stripped |-> c.stripped,
     after |-> c.after]

InCallback ==
    /\ pc = "assembling"
    /\ HasInclude(Top.rest)
    /\ UNCHANGED <<files, query>>
    /\ UNCHANGED frontendVars

\* lines 97-100: the target does not exist, the directive becomes a comment
IncludeMissing ==
    /\ InCallback
    /\ ~NextCall.exists
    /\ LET c == NextCall
       IN  /\ stack' = [stack EXCEPT ![Len(stack)] =
                          [@ EXCEPT !.out = @ \o c.before \o Placeholder(c.filename),
                                    !.rest = c.after]]
           /\ call' = Locals(c, "missing")
    /\ UNCHANGED <<pc, responses, readLog>>

\* line 88 throws: the target exists and cannot be read
IncludeReadError ==
    /\ InCallback
    /\ NextCall.exists
    /\ ~NextCall.read.ok
    /\ pc' = HandlerCatch(NextCall.read.message).pc
    /\ responses' = HandlerCatch(NextCall.read.message).responses
    /\ stack' = <<>>
    /\ call' = Locals(NextCall, "readError")
    /\ readLog' = readLog \cup {NextCall.filePath}

\* lines 86-95: the target is read, stripped and resolved by a nested call
IncludeFile ==
    /\ InCallback
    /\ NextCall.exists
    /\ NextCall.read.ok
    /\ Len(stack) < MaxStack
    /\ LET c == NextCall
       IN  /\ stack' = Append([stack EXCEPT ![Len(stack)] =
                                 [@ EXCEPT !.out = @ \o c.before, !.rest = c.after]],
                              [workingDir |-> Dirname(c.filePath), file |-> c.filePath,
                               out |-> <<>>, rest |-> c.stripped])
           /\ call' = Locals(c, "included")
    /\ readLog' = readLog \cup {NextCall.filePath}
    /\ UNCHANGED <<pc, responses>>

\* line 95 when the call stack is full: the nested call throws a RangeError
IncludeOverflow ==
    /\ InCallback
    /\ NextCall.exists
    /\ NextCall.read.ok
    /\ Len(stack) >= MaxStack
    /\ pc' = HandlerCatch(RangeError).pc
    /\ responses' = HandlerCatch(RangeError).responses
    /\ stack' = <<>>
    /\ call' = Locals(NextCall, "overflow")
    /\ readLog' = readLog \cup {NextCall.filePath}

\* an activation that returns the replaced part and loses the text after the
\* last match
ReturnedWithoutRest(frame) == frame.out

\* the text an activation returns once no match is left
Returned(frame) == frame.out \o frame.rest

\* line 95 returns: the result of the nested call replaces the directive
IncludeReturn ==
    /\ pc = "assembling"
    /\ ~HasInclude(Top.rest)
    /\ Len(stack) > 1
    /\ LET parent == stack[Len(stack) - 1]
       IN  stack' = Append(SubSeq(stack, 1, Len(stack) - 2),
                           [parent EXCEPT !.out = @ \o Returned(Top)])
    /\ UNCHANGED <<files, pc, query, responses, call, readLog>>
    /\ UNCHANGED frontendVars

\* lines 125-128: processIncludes returns to the handler, which sends the text
Respond ==
    /\ pc = "assembling"
    /\ ~HasInclude(Top.rest)
    /\ Len(stack) = 1
    /\ pc' = "done"
    /\ responses' = Append(responses, Response(200, "text/plain", Returned(Top)))
    /\ stack' = <<>>
    /\ UNCHANGED <<files, query, call, readLog>>
    /\ UNCHANGED frontendVars

(***************************************************************************)
(* The inputs: the files under and beside the public directory, and the    *)
(* requests.                                                               *)
(***************************************************************************)
\* a document holds at most this many items (a text, a tag, a directive)
MaxItems == 3

PathA == PublicDir \o <<"a.xacro">>
PathB == PublicDir \o <<"b.xacro">>
PathC == PublicDir \o <<"pkg", "c.xacro">>
PathD == PublicDir \o <<"pkg", "d.xacro">>
PathSecret == <<"app", "secret.xacro">>

Include(filename) == <<IncOpen>> \o filename \o <<IncClose>>

NameA       == <<"a.xacro">>
NameB       == <<"b.xacro">>
NameC       == <<"pkg", Slash, "c.xacro">>
NameD       == <<"d.xacro">>
NameMissing == <<"missing.xacro">>
NameDir     == <<"pkg">>
NameUp      == <<DotDot, Slash, "secret.xacro">>
FindC       == <<FindOpen, "pkg", RParen, Slash, "c.xacro">>
FindD       == <<FindOpen, "pkg", RParen, Slash, "d.xacro">>
FindUp      == <<FindOpen, DotDot, RParen, Slash, "secret.xacro">>
FindArg     == <<FindOpen, "pkg", RParen, Slash, ArgOpen, "m", RParen, Slash, "d.xacro">>
FindOpenOnly == <<FindOpen, "pkg", Slash, "c.xacro">>
FindMissing  == <<FindOpen, "nopkg", RParen, Slash, "c.xacro">>

Prolog    == <<XmlOpen, XmlAttr, PiEnd>>
RobotTag  == <<RobotOpen, RobotAttr, Gt>>
RobotLike == <<RobotOpen, RobotSfx, Gt>>

\* the concatenations of at most n of the items
RECURSIVE DocsOver(_, _)
DocsOver(items, n) ==
    IF n = 0 THEN {<<>>}
    ELSE LET shorter == DocsOver(items, n - 1)
         IN  shorter \cup { d \o i : d \in shorter, i \in items }

TopItems ==
    { <<IncOpen>>, <<IncClose>>, Include(FindMissing), Include(FindC), Include(NameA) }

IncludedItems ==
    { <<Nl>>, Prolog, RobotTag, RobotLike, <<RobotClose>>, Include(NameC) }

NestedItems ==
    { Include(NameD), Include(NameMissing), Include(FindD), Include(FindArg),
      Include(FindUp), Include(FindOpenOnly) }

DocA == <<"a-text">> \o Include(NameB) \o <<Elem>> \o Include(FindC) \o <<"a-end">>
DocB == Prolog \o <<Nl>> \o RobotTag \o <<"b-text">> \o Include(NameC) \o <<RobotClose>>
DocC == RobotTag \o Include(FindD) \o <<"c-text">> \o <<RobotClose>>
DocD == <<"d-text">>

File(content) == [kind |-> "file", content |-> content]
NoPerm        == [kind |-> "noperm", content |-> <<>>]
Absent        == [kind |-> "absent", content |-> <<>>]

\* the filesystem in which a.xacro, b.xacro and pkg/c.xacro are in states a, b, c
MakeFiles(a, b, c) ==
    LET state == (PathA :> a) @@ (PathB :> b) @@ (PathC :> c)
                 @@ (PathD :> File(DocD)) @@ (PathSecret :> File(<<"secret">>))
    IN  [ p \in { q \in DOMAIN state : state[q].kind # "absent" } |->
            [readable |-> state[p].kind = "file", content |-> state[p].content] ]

FileSystems ==
    { MakeFiles(File(a), File(DocB), File(DocC)) : a \in DocsOver(TopItems, MaxItems) }
    \cup
    { MakeFiles(File(DocA), File(b), File(DocC)) : b \in DocsOver(IncludedItems, MaxItems) }
    \cup
    { MakeFiles(File(DocA), File(DocB), File(c)) : c \in DocsOver(NestedItems, MaxItems) }
    \cup
    { MakeFiles(File(DocA), NoPerm, File(DocC)),
      MakeFiles(File(DocA), Absent, File(DocC)),
      MakeFiles(File(DocA), File(DocB), NoPerm) }

Queries ==
    { NoQuery } \cup
    { [present |-> TRUE, file |-> f] :
        f \in { <<>>, NameA, NameB, NameC, NameMissing, NameDir, NameUp } }

(***************************************************************************)
(* The specification of the backend                                        *)
(***************************************************************************)
ServerInit ==
    /\ files \in FileSystems
    /\ pc = "idle"
    /\ query = NoQuery
    /\ stack = <<>>
    /\ responses = <<>>
    /\ call = NoCall
    /\ readLog = {}

\* the handler has returned: the server waits for the next request
Finish ==
    /\ pc = "done"
    /\ pc' = "idle"
    /\ query' = NoQuery
    /\ responses' = <<>>
    /\ call' = NoCall
    /\ readLog' = {}
    /\ UNCHANGED <<files, stack>>
    /\ UNCHANGED frontendVars

ServerNext ==
    \/ \E q \in Queries : Request400(q)
    \/ \E q \in Queries : Request404(q)
    \/ \E q \in Queries : RequestReadError(q)
    \/ \E q \in Queries : RequestAssemble(q)
    \/ IncludeMissing
    \/ IncludeReadError
    \/ IncludeFile
    \/ IncludeOverflow
    \/ IncludeReturn
    \/ Respond
    \/ Finish

(***************************************************************************)
(* findFileInMap.  A path string is the sequence of the pieces that its    *)
(* '/' characters separate: "a//b" is <<"a", "", "b">>, "" is <<"">>.      *)
(***************************************************************************)
\* a File, known by the fullPath of the entry it was read from
FileAt(path) == [defined |-> TRUE, entry |-> path]
Undefined    == [defined |-> FALSE, entry |-> <<>>]

\* a normalisation that knows the package scheme only
StripSchemePackageOnly(target) ==
    IF Len(target) >= 3 /\ target[1] = "package:" /\ target[2] = ""
    THEN SubSeq(target, 3, Len(target))
    ELSE target

\* targetPath.replace(/^(package:\/\/|file:\/\/)/, '')
StripScheme(target) ==
    IF Len(target) >= 3 /\ target[1] \in {"package:", "file:"} /\ target[2] = ""
    THEN SubSeq(target, 3, Len(target))
    ELSE target

\* whole.startsWith(part + '/') in the place of whole.endsWith('/' + part)
StartsWithSlash(whole, part) ==
    /\ Len(whole) > Len(part)
    /\ SubSeq(whole, 1, Len(part)) = part

\* whole.endsWith('/' + part)
EndsWithSlash(whole, part) ==
    /\ Len(whole) > Len(part)
    /\ SubSeq(whole, Len(whole) - Len(part) + 1, Len(whole)) = part

\* lines 65-67: the three tests of the first loop
SuffixMatch(path, normalizedTarget) ==
    \/ path = normalizedTarget
    \/ EndsWithSlash(path, normalizedTarget)
    \/ EndsWithSlash(normalizedTarget, path)

\* the test of the second loop without its endsWith half
NameMatchExactOnly(path, targetFileName) == path = <<targetFileName>>

\* path.includes(targetFileName) in the place of the test of the second loop
NameMatchAnySegment(path, targetFileName) ==
    \E i \in 1..Len(path) : path[i] = targetFileName

\* line 85: the test of the second loop
NameMatch(path, targetFileName) ==
    EndsWithSlash(path, <<targetFileName>>) \/ path = <<targetFileName>>

\* the entries of the map that pass a test, in insertion order
Passing(map, Test(_)) == { i \in 1..Len(map) : Test(map[i].path) }

\* findFileInMap with the loose filename match tried before the suffix match
FindFileInMapLooseFirst(target, map) ==
    LET exact            == Passing(map, LAMBDA path : path = target)
        normalizedTarget == StripScheme(target)
        suffix           == Passing(map, LAMBDA path : SuffixMatch(path, normalizedTarget))
        targetFileName   == normalizedTarget[Len(normalizedTarget)]
        loose            == Passing(map, LAMBDA path : NameMatch(path, targetFileName))
    IN  IF exact # {} THEN map[Min(exact)].file
        ELSE IF targetFileName # "" /\ loose # {} THEN map[Min(loose)].file
        ELSE IF suffix # {} THEN map[Min(suffix)].file
        ELSE Undefined

\* lines 51-93
FindFileInMap(target, map) ==
    LET exact            == Passing(map, LAMBDA path : path = target)
        normalizedTarget == StripScheme(target)
        suffix           == Passing(map, LAMBDA path : SuffixMatch(path, normalizedTarget))
        targetFileName   == normalizedTarget[Len(normalizedTarget)]
        loose            == Passing(map, LAMBDA path : NameMatch(path, targetFileName))
    IN  IF exact # {} THEN map[Min(exact)].file
        ELSE IF suffix # {} THEN map[Min(suffix)].file
        ELSE IF targetFileName # "" /\ loose # {} THEN map[Min(loose)].file
        ELSE Undefined

\* a map holds at most this many entries
MaxEntries == 3

Keys ==
    { <<"base.stl">>,
      <<"meshes", "base.stl">>,
      <<"robot", "meshes", "base.stl">>,
      <<"dropped_root", "robot", "meshes", "base.stl">>,
      <<"other", "base.stl">>,
      <<"spare", "base.stl">>,
      <<"robot", "meshes", "arm.stl">>,
      <<"package:", "", "robot", "meshes", "base.stl">> }

Targets ==
    { <<"package:", "", "robot", "meshes", "base.stl">>,
      <<"file:", "", "robot", "meshes", "base.stl">>,
      <<"robot", "meshes", "base.stl">>,
      <<"meshes", "base.stl">>,
      <<"base.stl">>,
      <<"package:", "", "arm", "wrist.stl">>,
      <<"robot", "meshes", "">>,
      <<"robot", "meshes">>,
      <<"package:", "", "">> }

\* the maps of at most n entries with distinct keys, in every insertion order
RECURSIVE MapsOver(_, _)
MapsOver(keys, n) ==
    IF n = 0 THEN {<<>>}
    ELSE LET shorter == MapsOver(keys, n - 1)
         IN  shorter \cup
             { Append(m, [path |-> k, file |-> FileAt(k)]) :
                 m \in shorter,
                 k \in keys }

HasDistinctKeys(map) ==
    \A i, j \in 1..Len(map) : i # j => map[i].path # map[j].path

FileMaps == { m \in MapsOver(Keys, MaxEntries) : HasDistinctKeys(m) }

MatchInit ==
    /\ fileMap \in FileMaps
    /\ targetPath \in Targets
    /\ found = Undefined
    /\ lookup = "ready"

\* the frontend has dropped nothing yet
MatchIdle ==
    /\ fileMap = <<>>
    /\ targetPath = <<"">>
    /\ found = Undefined
    /\ lookup = "ready"

\* the backend is not running
ServerIdle ==
    /\ files = MakeFiles(Absent, Absent, Absent)
    /\ pc = "idle"
    /\ query = NoQuery
    /\ stack = <<>>
    /\ responses = <<>>
    /\ call = NoCall
    /\ readLog = {}

\* nothing is being dropped
FilesIdle ==
    /\ dropped = <<>>
    /\ itemList = <<>>
    /\ queue = <<>>
    /\ allFiles = <<>>
    /\ walk = "idle"
    /\ entry = <<>>
    /\ entries = <<>>
    /\ reader = <<>>
    /\ visited = <<>>
    /\ batches = <<>>

\* no structure tree is shown
LayoutIdle ==
    /\ children = <<>>
    /\ node = <<>>
    /\ collapsedIds = {}
    /\ totalWidth = 0
    /\ layouts = "built"

\* null, for urdfContent and error
Null == "null"

\* robot === null
NoRobot == [loaded |-> FALSE, content |-> Null, collision |-> FALSE]

NoCallback == [run |-> 0, runs |-> 0, changed |-> FALSE]

\* lines 9-21: App is mounted; the parse effect has run once and returned at
\* line 25
AppInit ==
    /\ robot = NoRobot
    /\ urdfContent = Null
    /\ loading = FALSE
    /\ error = Null
    /\ showCollision = FALSE
    /\ hasCollision = FALSE
    /\ lastDeps = <<Null, FALSE>>
    /\ fetches = 0
    /\ reads = <<>>
    /\ timers = <<>>
    /\ managers = {}
    /\ runs = 0
    /\ events = 0
    /\ late = NoCallback

\* the URDF loader asks for the file of targetPath
Lookup ==
    /\ lookup = "ready"
    /\ found' = FindFileInMap(targetPath, fileMap)
    /\ lookup' = "returned"
    /\ UNCHANGED <<fileMap, targetPath>>
    /\ UNCHANGED <<serverVars, appVars, layoutVars, filesVars>>

Init == ServerInit /\ MatchIdle /\ AppInit /\ LayoutIdle /\ FilesIdle

Next == ServerNext

Spec == Init /\ [][Next]_vars

MatchNext == Lookup

MatchSpecInit == MatchInit /\ ServerIdle /\ AppInit /\ LayoutIdle /\ FilesIdle

MatchSpec == MatchSpecInit /\ [][MatchNext]_vars

(***************************************************************************)
(* What the claims speak of                                                *)
(***************************************************************************)
Answered == pc = "done"
Status   == responses[1].status
Body     == responses[1].body

\* the requested file could be read: its text and its directory
RequestRead == ReadFileSync(files, FullPath(query))
Requested   == RequestRead.content
RequestDir  == Dirname(FullPath(query))

\* t occurs in s as a run of consecutive lexemes
Contains(s, t) ==
    \E i \in 0..(Len(s) - Len(t)) : SubSeq(s, i + 1, i + Len(t)) = t

\* the matches of includeRegex in s, left to right
RECURSIVE Directives(_)
Directives(s) ==
    IF ~HasInclude(s) THEN <<>>
    ELSE <<FirstInclude(s)>> \o Directives(SubSeq(s, FirstInclude(s).end + 1, Len(s)))

\* every directive of content has a missing target, or a readable target that
\* holds no directive once stripped
IsShallow(fileSystem, content, dir) ==
    \A k \in 1..Len(Directives(content)) :
        LET fp == TargetPath(Directives(content)[k].filename, dir)
        IN  \/ ~ExistsSync(fileSystem, fp)
            \/ /\ ReadFileSync(fileSystem, fp).ok
               /\ ~HasInclude(Strip(ReadFileSync(fileSystem, fp).content))

\* content with each directive replaced: by the comment that quotes its
\* filename when the target is missing, by the stripped target otherwise
RECURSIVE ShallowResolve(_, _, _)
ShallowResolve(fileSystem, content, dir) ==
    IF ~HasInclude(content) THEN content
    ELSE LET m  == FirstInclude(content)
             fp == TargetPath(m.filename, dir)
         IN  SubSeq(content, 1, m.start - 1)
             \o (IF ExistsSync(fileSystem, fp)
                 THEN Strip(ReadFileSync(fileSystem, fp).content)
                 ELSE <<"<!-- File not found: ">> \o m.filename \o <<" -->">>)
             \o ShallowResolve(fileSystem, SubSeq(content, m.end + 1, Len(content)), dir)

MissingDirectives(fileSystem, content, dir) ==
    { k \in 1..Len(Directives(content)) :
        ~ExistsSync(fileSystem, TargetPath(Directives(content)[k].filename, dir)) }

\* C1: a document without an include directive comes back unchanged: as the
\* body of the response when it is the requested file, and from processIncludes
\* for every file of the filesystem and every working directory.
C1_NoDirectiveIdentity ==
    /\ (Answered /\ RequestRead.ok /\ ~HasInclude(Requested))
          => (Status = 200 /\ Body = Requested)
    /\ pc = "idle" =>
          \A p \in DOMAIN files : \A dir \in {<<>>, PublicDir, Dirname(p)} :
             ~HasInclude(files[p].content)
                => ProcessIncludes(files, files[p].content, dir, 1, MaxStack)
                     = Returns(files[p].content)

C1_Witness ==
    /\ Answered /\ RequestRead.ok /\ ~HasInclude(Requested)
    /\ \E i \in 1..Len(Requested) : Requested[i] = RobotOpen
    /\ \E i \in 1..Len(Requested) : Requested[i] = XmlOpen
    /\ Body = Requested

\* C2: a directive whose target is missing becomes a comment that quotes the
\* filename as written, the request does not fail on it, and the other
\* directives of the document are resolved all the same.
C2_MissingBecomesPlaceholder ==
    /\ (Answered /\ RequestRead.ok /\ IsShallow(files, Requested, RequestDir))
          => (Status = 200 /\ Body = ShallowResolve(files, Requested, RequestDir))
    /\ (Answered /\ RequestRead.ok /\ Status = 200)
          => \A k \in MissingDirectives(files, Requested, RequestDir) :
                Contains(Body, <<"<!-- File not found: ">>
                               \o Directives(Requested)[k].filename \o <<" -->">>)
    /\ (Answered /\ call.outcome = "missing") => Status = 200

C2_Witness ==
    /\ Answered /\ RequestRead.ok /\ Status = 200
    /\ \E k \in MissingDirectives(files, Requested, RequestDir) :
          /\ PkgStarts(Directives(Requested)[k].filename) # {}
          /\ Contains(Body, <<"<!-- File not found: ">>
                            \o Directives(Requested)[k].filename \o <<" -->">>)
    /\ \E k \in 1..Len(Directives(Requested)) :
          k \notin MissingDirectives(files, Requested, RequestDir)
    /\ Contains(Body, <<"d-text">>)

\* the text s without its lexemes i..j
Without(s, i, j) == SubSeq(s, 1, i - 1) \o SubSeq(s, j + 1, Len(s))

\* an included file with exactly one top-level wrapper removed: its first
\* declaration prolog, the first tag whose name is robot, the last </robot>
WithoutProlog(s) ==
    LET opens == { i \in 1..Len(s) :
                     s[i] = XmlOpen /\ \E j \in (i + 1)..Len(s) : s[j] = PiEnd }
    IN  IF opens = {} THEN s
        ELSE Without(s, Min(opens),
                     Min({ j \in (Min(opens) + 1)..Len(s) : s[j] = PiEnd }))

WithoutContainerOpen(s) ==
    LET opens == { i \in 1..Len(s) :
                     /\ s[i] = RobotOpen
                     /\ i < Len(s) /\ s[i + 1] # RobotSfx
                     /\ \E j \in (i + 1)..Len(s) : HasGt(s[j]) }
    IN  IF opens = {} THEN s
        ELSE Without(s, Min(opens),
                     Min({ j \in (Min(opens) + 1)..Len(s) : HasGt(s[j]) }))

WithoutContainerClose(s) ==
    LET closes == { i \in 1..Len(s) : s[i] = RobotClose }
    IN  IF closes = {} THEN s ELSE Without(s, Max(closes), Max(closes))

StripWrapper(s) == WithoutContainerClose(WithoutContainerOpen(WithoutProlog(s)))

\* C3: the text resolved in place of a directive is the included file with
\* exactly one top-level wrapper removed and nothing else: inner tags whose
\* name begins with robot and further closing tags are kept.
C3_OneWrapperStripped ==
    call.outcome = "included" => call.stripped = StripWrapper(call.includeContent)

\* a filename of the form $(find PACKAGE)REST, PACKAGE an identifier
IsMacroForm(filename) ==
    /\ Len(filename) >= 3
    /\ filename[1] = FindOpen
    /\ filename[2] \notin {FindOpen, ArgOpen, RParen, Slash, DotDot}
    /\ filename[3] = RParen

\* C4: the target of a directive of the form $(find PACKAGE)REST is
\* rootDir/PACKAGE/REST, REST being the text after the macro's closing
\* parenthesis, whatever the working directory and the nesting depth.
C4_MacroTarget ==
    (call.outcome # "none" /\ IsMacroForm(call.filename))
       => call.filePath =
            Normalize(PublicDir,
                      <<call.filename[2]>>
                      \o Segments(SubSeq(call.filename, 4, Len(call.filename))))

\* every directive of content, and of the files it includes, has a readable
\* target, along chains of at most as many files as the filesystem holds
RECURSIVE AllResolve(_, _, _, _)
AllResolve(fileSystem, content, dir, depth) ==
    /\ depth <= Cardinality(DOMAIN fileSystem)
    /\ \A k \in 1..Len(Directives(content)) :
          LET fp == TargetPath(Directives(content)[k].filename, dir)
          IN  /\ ReadFileSync(fileSystem, fp).ok
              /\ AllResolve(fileSystem, Strip(ReadFileSync(fileSystem, fp).content),
                            Dirname(fp), depth + 1)

\* C5: when every target of an acyclic chain of includes exists, the request
\* succeeds and no text of the returned document matches the directive
\* pattern.
C5_NoResidualDirective ==
    (Answered /\ RequestRead.ok /\ AllResolve(files, Requested, RequestDir, 1))
       => (Status = 200 /\ ~HasInclude(Body))

\* C6: a chain of directives is never followed cyclically: no file is being
\* resolved twice at once, and the recursion never exhausts the call stack.
C6_NoCyclicFollow ==
    /\ \A i, j \in 1..Len(stack) : i # j => stack[i].file # stack[j].file
    /\ call.outcome # "overflow"

\* C7: a target that exists and cannot be read does not end the resolution of
\* the directives that follow it in the document.
C7_ReadFailureContained ==
    (call.outcome = "readError" /\ HasInclude(call.after)) => pc = "assembling"

C9_ReadsStayUnderRoot ==
    \A p \in readLog : IsPrefix(PublicDir, p)

\* the keys of the map, and those a strategy accepts for the target
KeysOf(map) == { map[i].path : i \in 1..Len(map) }

Strategy2Keys(target, map) ==
    { k \in KeysOf(map) :
        \/ k = StripScheme(target)
        \/ EndsWithSlash(k, StripScheme(target))
        \/ EndsWithSlash(StripScheme(target), k) }

Strategy3Keys(target, map) ==
    LET name == StripScheme(target)[Len(StripScheme(target))]
    IN  { k \in KeysOf(map) :
            name # "" /\ (k = <<name>> \/ EndsWithSlash(k, <<name>>)) }

\* C10: the strategies apply in strict priority order.  A target that is a
\* key gets the file of that key; otherwise a key that strategy 2 accepts
\* wins when there is one; the filename fallback decides only when no key
\* passes strategies 1 and 2.
C10_StrictPriority ==
    lookup = "returned" =>
       /\ targetPath \in KeysOf(fileMap) => found = FileAt(targetPath)
       /\ (targetPath \notin KeysOf(fileMap) /\ Strategy2Keys(targetPath, fileMap) # {})
             => (found.defined /\ found.entry \in Strategy2Keys(targetPath, fileMap))
       /\ (found.defined /\ found.entry # targetPath
             /\ found.entry \notin Strategy2Keys(targetPath, fileMap))
             => /\ targetPath \notin KeysOf(fileMap)
                /\ Strategy2Keys(targetPath, fileMap) = {}
                /\ found.entry \in Strategy3Keys(targetPath, fileMap)

C10_Witness ==
    /\ lookup = "returned"
    /\ Len(fileMap) = 3
    /\ fileMap[3].path = targetPath
    /\ fileMap[1].path \in Strategy3Keys(targetPath, fileMap)
    /\ fileMap[1].path \notin Strategy2Keys(targetPath, fileMap)
    /\ fileMap[2].path \in Strategy2Keys(targetPath, fileMap)
    /\ found = FileAt(targetPath)

\* the target with one leading 'package://' or 'file://' removed
Unschemed(target) ==
    IF Len(target) >= 3 /\ target[2] = "" /\ (target[1] = "package:" \/ target[1] = "file:")
    THEN [i \in 1..(Len(target) - 2) |-> target[i + 2]]
    ELSE target

\* the last len segments of path
LastSegments(path, len) == [i \in 1..len |-> path[Len(path) - len + i]]

\* K = N, or K ends with '/' + N, or N ends with '/' + K
Related(K, N) ==
    \/ K = N
    \/ Len(K) > Len(N) /\ LastSegments(K, Len(N)) = N
    \/ Len(N) > Len(K) /\ LastSegments(N, Len(K)) = K

\* the text after the last '/'
FileName(path) == path[Len(path)]

\* C11: when the unmodified target is not a key and some key K is related to
\* the scheme-stripped target N (K = N, K ends with '/' + N, or N ends with
\* '/' + K), the file of such a key is returned.
C11_SchemeStrippedMatch ==
    (/\ lookup = "returned"
     /\ targetPath \notin KeysOf(fileMap)
     /\ \E K \in KeysOf(fileMap) : Related(K, Unschemed(targetPath)))
       => /\ found.defined
          /\ found.entry \in KeysOf(fileMap)
          /\ Related(found.entry, Unschemed(targetPath))

C11_Witness ==
    /\ lookup = "returned"
    /\ targetPath = <<"file:", "", "robot", "meshes", "base.stl">>
    /\ Len(fileMap) = 2
    /\ fileMap[1].path = <<"other", "base.stl">>
    /\ fileMap[2].path = <<"dropped_root", "robot", "meshes", "base.stl">>
    /\ found = FileAt(fileMap[2].path)

\* the places of the entries whose key is the filename or ends with '/' + it
NamedLike(map, name) ==
    { i \in 1..Len(map) :
        \/ map[i].path = <<name>>
        \/ Len(map[i].path) > 1 /\ FileName(map[i].path) = name }

\* C12: when no key is the target or related to the scheme-stripped target,
\* the first entry whose key is the target's filename, or ends with '/' + that
\* filename, is returned, whatever the rest of its key is.
C12_FilenameFallback ==
    (/\ lookup = "returned"
     /\ targetPath \notin KeysOf(fileMap)
     /\ \A K \in KeysOf(fileMap) : ~Related(K, Unschemed(targetPath)))
       => LET named == NamedLike(fileMap, FileName(Unschemed(targetPath)))
          IN  IF named = {} THEN found = Undefined
              ELSE found = fileMap[Min(named)].file

C12_Witness ==
    /\ lookup = "returned"
    /\ targetPath = <<"package:", "", "robot", "meshes", "base.stl">>
    /\ Len(fileMap) = 3
    /\ fileMap[1].path = <<"robot", "meshes", "arm.stl">>
    /\ fileMap[2].path = <<"other", "base.stl">>
    /\ fileMap[3].path = <<"spare", "base.stl">>
    /\ found = FileAt(<<"other", "base.stl">>)

\* C13: the lookup returns a file of the map or Not Found, and Not Found when
\* the map is empty or no key has the filename of the target.
C13_FileOfMapOrNotFound ==
    lookup = "returned" =>
       /\ found = Undefined \/ \E i \in 1..Len(fileMap) : found = fileMap[i].file
       /\ fileMap = <<>> => found = Undefined
       /\ (\A K \in KeysOf(fileMap) : FileName(K) # FileName(targetPath))
             => found = Undefined

C13_Witness ==
    /\ lookup = "returned"
    /\ Len(fileMap) = 3
    /\ targetPath = <<"robot", "meshes">>
    /\ \E i \in 1..3 : fileMap[i].path = <<"robot", "meshes", "arm.stl">>
    /\ found = Undefined

\* the entries of map in every order
Reorderings(map) ==
    LET n == Len(map)
        orders == { f \in [1..n -> 1..n] : \A i, j \in 1..n : i # j => f[i] # f[j] }
    IN  { [i \in 1..n |-> map[f[i]]] : f \in orders }

\* C14: the file returned does not depend on the order of the entries: the
\* same entries stored in any other order give the same file.
C14_OrderIndependent ==
    lookup = "returned" =>
       \A m \in Reorderings(fileMap) : FindFileInMap(targetPath, m) = found

\* C16: a file that is returned is stored under a key with the filename of
\* the scheme-stripped target.
C16_SameFileName ==
    (lookup = "returned" /\ found.defined)
       => FileName(found.entry) = FileName(Unschemed(targetPath))

C16_Witness ==
    /\ lookup = "returned"
    /\ found.defined
    /\ targetPath = <<"package:", "", "robot", "meshes", "base.stl">>
    /\ found.entry = <<"meshes", "base.stl">>
    /\ \E i \in 1..Len(fileMap) : FileName(fileMap[i].path) = "arm.stl"

\* the spans of the directives of s that start at from or later, left to right
RECURSIVE SpansFrom(_, _)
SpansFrom(s, from) ==
    LET starts == { i \in MatchStarts(s) : i >= from }
    IN  IF starts = {} THEN <<>>
        ELSE LET i == Min(starts)
                 j == Min(IncludeEnds(s, i))
             IN  <<[start |-> i, end |-> j]>> \o SpansFrom(s, j + 1)

\* what stands for the directive with this span: the comment for a missing
\* target, the resolved text of the stripped target otherwise
ResultOf(fileSystem, s, span, dir) ==
    LET filename == SubSeq(s, span.start + 1, span.end - 1)
        fp       == TargetPath(filename, dir)
    IN  IF ~ExistsSync(fileSystem, fp)
        THEN <<"<!-- File not found: ">> \o filename \o <<" -->">>
        ELSE ProcessIncludes(fileSystem, Strip(ReadFileSync(fileSystem, fp).content),
                             Dirname(fp), 2, MaxStack).text

\* the text of s outside the spans, with the result of each directive in the
\* place of its span; k is the number of spans already passed
RECURSIVE Spliced(_, _, _, _, _)
Spliced(fileSystem, s, spans, k, dir) ==
    LET from == IF k = 0 THEN 1 ELSE spans[k].end + 1
    IN  IF k = Len(spans) THEN SubSeq(s, from, Len(s))
        ELSE SubSeq(s, from, spans[k + 1].start - 1)
             \o ResultOf(fileSystem, s, spans[k + 1], dir)
             \o Spliced(fileSystem, s, spans, k + 1, dir)

\* C15: the document returned is the requested one with the span of each
\* directive, taken left to right without overlap, replaced by the result of
\* that directive; the text before, between and after the spans is unchanged
\* and in place.
C15_OnlyDirectiveSpansChange ==
    (Answered /\ RequestRead.ok /\ Status = 200)
       => LET spans == SpansFrom(Requested, 1)
          IN  /\ \A k \in 1..(Len(spans) - 1) : spans[k].end < spans[k + 1].start
              /\ Body = Spliced(files, Requested, spans, 0, RequestDir)

C15_Witness ==
    /\ Answered /\ RequestRead.ok /\ Status = 200
    /\ Len(SpansFrom(Requested, 1)) = 2
    /\ SpansFrom(Requested, 1)[1].start > 1
    /\ SpansFrom(Requested, 1)[2].start > SpansFrom(Requested, 1)[1].end + 1
    /\ SpansFrom(Requested, 1)[2].end < Len(Requested)
    /\ \E k \in 1..2 :
          ~ExistsSync(files, TargetPath(SubSeq(Requested, SpansFrom(Requested, 1)[k].start + 1,
                                               SpansFrom(Requested, 1)[k].end - 1),
                                        RequestDir))

(***************************************************************************)
(* The App component: loading a URDF from a file or from sample.urdf.      *)
(* A URDF text is known by what the loader does with it.                   *)
(***************************************************************************)
\* the user acts at most this many times
MaxEvents == 3

EmptyText == ""
\* the files the user can select, and the text of public/sample.urdf
FileContents == {EmptyText, "plain", "meshes", "broken"}
Sample       == "meshes"

\* loader.parse(urdfContent) returns a robot
Parses(content) == content # "broken"
\* manager.isLoading after the parse: the robot has meshes to fetch
HasMeshes(content) == content = "meshes"
\* xml.querySelectorAll('collision').length > 0
HasCollisionTag(content) == content = "meshes"

Robot(content, collision) == [loaded |-> TRUE, content |-> content, collision |-> collision]

RemoveAt(seq, i) == SubSeq(seq, 1, i - 1) \o SubSeq(seq, i + 1, Len(seq))

\* React runs a parse effect that is due before it handles the next event or
\* callback
EffectsFlushed == <<urdfContent, showCollision>> = lastDeps

AppFrame == UNCHANGED <<serverVars, matchVars, layoutVars, filesVars>>

\* lines 105-111: the button "Load Sample Robot"
LoadSample ==
    /\ EffectsFlushed
    /\ events < MaxEvents
    /\ events' = events + 1
    /\ loading' = TRUE
    /\ showCollision' = FALSE
    /\ fetches' = fetches + 1
    /\ UNCHANGED <<robot, urdfContent, error, hasCollision, lastDeps, reads, timers,
                   managers, runs, late>>
    /\ AppFrame

\* lines 112-120: the fetch succeeds
FetchOk ==
    /\ EffectsFlushed
    /\ fetches > 0
    /\ fetches' = fetches - 1
    /\ urdfContent' = Sample
    /\ UNCHANGED <<robot, loading, error, showCollision, hasCollision, lastDeps, reads,
                   timers, managers, runs, events, late>>
    /\ AppFrame

\* lines 113-115 and 121-125: the fetch fails or answers with an error status
FetchFail ==
    /\ EffectsFlushed
    /\ fetches > 0
    /\ fetches' = fetches - 1
    /\ error' = "Failed to fetch sample.urdf."
    /\ loading' = FALSE
    /\ UNCHANGED <<robot, urdfContent, showCollision, hasCollision, lastDeps, reads,
                   timers, managers, runs, events, late>>
    /\ AppFrame

\* lines 89-92 and 101: the user selects a file
SelectFile(content) ==
    /\ EffectsFlushed
    /\ events < MaxEvents
    /\ events' = events + 1
    /\ reads' = Append(reads, content)
    /\ UNCHANGED <<robot, urdfContent, loading, error, showCollision, hasCollision,
                   lastDeps, fetches, timers, managers, runs, late>>
    /\ AppFrame

\* lines 93-97: reader.onload
ReadDone(i) ==
    /\ EffectsFlushed
    /\ i \in 1..Len(reads)
    /\ urdfContent' = reads[i]
    /\ reads' = RemoveAt(reads, i)
    /\ UNCHANGED <<robot, loading, error, showCollision, hasCollision, lastDeps, fetches,
                   timers, managers, runs, events, late>>
    /\ AppFrame

\* lines 98-100: reader.onerror
ReadFail(i) ==
    /\ EffectsFlushed
    /\ i \in 1..Len(reads)
    /\ error' = "Failed to read file."
    /\ reads' = RemoveAt(reads, i)
    /\ UNCHANGED <<robot, urdfContent, loading, showCollision, hasCollision, lastDeps,
                   fetches, timers, managers, runs, events, late>>
    /\ AppFrame

\* line 80: the key 'c'
ToggleCollision ==
    /\ EffectsFlushed
    /\ events < MaxEvents
    /\ hasCollision
    /\ events' = events + 1
    /\ showCollision' = ~showCollision
    /\ UNCHANGED <<robot, urdfContent, loading, error, hasCollision, lastDeps, fetches,
                   reads, timers, managers, runs, late>>
    /\ AppFrame

\* lines 24-43 and 66-68: the parse effect runs because a dependency changed
ParseEffect ==
    /\ <<urdfContent, showCollision>> # lastDeps
    /\ lastDeps' = <<urdfContent, showCollision>>
    /\ IF urdfContent \in {Null, EmptyText}
       THEN UNCHANGED <<robot, loading, error, hasCollision, timers, runs>>
       ELSE /\ loading' = TRUE
            /\ error' = Null
            /\ robot' = NoRobot
            /\ hasCollision' = HasCollisionTag(urdfContent)
            /\ runs' = runs + 1
            /\ timers' = Append(timers, [run |-> runs + 1, urdfContent |-> urdfContent,
                                         showCollision |-> showCollision])
    /\ UNCHANGED <<urdfContent, showCollision, fetches, reads, managers, events, late>>
    /\ AppFrame

\* the callback of an effect run that is not the latest still writes the state
Callback(run, newRobot, newLoading, newError) ==
    /\ robot' = newRobot
    /\ loading' = newLoading
    /\ error' = newError
    /\ late' = [run |-> run, runs |-> runs,
                changed |-> <<newRobot, newLoading, newError>> # <<robot, loading, error>>]

\* lines 43-66: the timer of the oldest waiting effect run fires
TimerFire ==
    /\ EffectsFlushed
    /\ timers # <<>>
    /\ LET t == Head(timers)
       IN  /\ IF ~Parses(t.urdfContent)
              THEN Callback(t.run, robot, FALSE,
                            "Failed to parse URDF file. Check content for errors.")
              ELSE Callback(t.run, Robot(t.urdfContent, t.showCollision),
                            IF HasMeshes(t.urdfContent) THEN loading ELSE FALSE, error)
           /\ managers' = IF Parses(t.urdfContent) /\ HasMeshes(t.urdfContent)
                          THEN managers \cup {t.run} ELSE managers
    /\ timers' = Tail(timers)
    /\ UNCHANGED <<urdfContent, showCollision, hasCollision, lastDeps, fetches, reads,
                   runs, events>>
    /\ AppFrame

\* line 48: manager.onLoad
ManagerLoad(run) ==
    /\ EffectsFlushed
    /\ run \in managers
    /\ managers' = managers \ {run}
    /\ Callback(run, robot, FALSE, error)
    /\ UNCHANGED <<urdfContent, showCollision, hasCollision, lastDeps, fetches, reads,
                   timers, runs, events>>
    /\ AppFrame

\* lines 49-52: manager.onError
ManagerError(run) ==
    /\ EffectsFlushed
    /\ run \in managers
    /\ managers' = managers \ {run}
    /\ Callback(run, robot, FALSE, "Failed to load resource")
    /\ UNCHANGED <<urdfContent, showCollision, hasCollision, lastDeps, fetches, reads,
                   timers, runs, events>>
    /\ AppFrame

AppNext ==
    \/ LoadSample
    \/ FetchOk
    \/ FetchFail
    \/ \E content \in FileContents : SelectFile(content)
    \/ \E i \in 1..MaxEvents : ReadDone(i)
    \/ \E i \in 1..MaxEvents : ReadFail(i)
    \/ ToggleCollision
    \/ ParseEffect
    \/ TimerFire
    \/ \E run \in 1..(2 * MaxEvents) : ManagerLoad(run)
    \/ \E run \in 1..(2 * MaxEvents) : ManagerError(run)

AppSpecInit == AppInit /\ ServerIdle /\ MatchIdle /\ LayoutIdle /\ FilesIdle

AppSpec == AppSpecInit /\ [][AppNext]_vars

\* something is in flight that will write the state: a fetch, a file read, a
\* run of the parse effect that is due, a timer, a loading manager
InFlight ==
    \/ fetches > 0
    \/ reads # <<>>
    \/ <<urdfContent, showCollision>> # lastDeps
    \/ timers # <<>>
    \/ managers # {}

\* C17: every load ends.  While loading is true something is in flight whose
\* completion leads to setLoading(false); a state with loading true and
\* nothing in flight stays loading for ever.
C17_LoadingHasWorkInFlight == loading => InFlight

\* C18: a timer or manager callback of an effect run that is not the latest
\* changes none of robot, loading and error.
C18_SupersededLoadIsSilent == ~(late.changed /\ late.run < late.runs)

(***************************************************************************)
(* calculateLayout.  Positions are kept in units of 1/Scale pixel, so that *)
(* the halving of line 101 stays exact, as it is for the numbers of the    *)
(* code.                                                                   *)
(***************************************************************************)
NODE_WIDTH  == 160
NODE_HEIGHT == 45
GAP_X       == 20
GAP_Y       == 60

\* a tree has at most this many nodes
MaxNodes == 4

RECURSIVE Pow2(_)
Pow2(n) == IF n = 0 THEN 1 ELSE 2 * Pow2(n - 1)

Scale == Pow2(MaxNodes)
Px(n) == n * Scale

\* the trees of n nodes: the parent of node i > 1 is a node before it
ParentMaps(n) == { p \in [2..n -> 1..n] : \A i \in 2..n : p[i] < i }

RECURSIVE Ascending(_)
Ascending(S) ==
    IF S = {} THEN <<>>
    ELSE <<Min(S)>> \o Ascending(S \ {Min(S)})

ChildrenOf(n, p) == [i \in 1..n |-> Ascending({ j \in 2..n : p[j] = i })]

Trees == UNION { { ChildrenOf(n, p) : p \in ParentMaps(n) } : n \in 1..MaxNodes }

\* lines 55-64: the node as buildTreeData makes it
NewNode == [x |-> 0, y |-> 0, width |-> 0, height |-> 0, collapsed |-> FALSE]

\* lines 78-104.  nodes holds the fields of all nodes; the result is the
\* fields after the call, and the number the call returns.
RECURSIVE CalculateLayout(_, _, _, _, _, _)
RECURSIVE LayoutChildren(_, _, _, _, _, _, _)
RECURSIVE LayoutChildrenSameStart(_, _, _, _, _, _, _)
\* a forEach that does not carry currentX from one child to the next
LayoutChildrenSameStart(tree, nodes, id, k, depth, currentX, collapsedMap) ==
    IF k > Len(tree[id]) THEN [nodes |-> nodes, ret |-> currentX + Px(NODE_WIDTH + GAP_X)]
    ELSE LET child == CalculateLayout(tree, nodes, tree[id][k], depth + 1, currentX,
                                      collapsedMap)
         IN  LayoutChildrenSameStart(tree, child.nodes, id, k + 1, depth, currentX,
                                     collapsedMap)

\* lines 94-96: node.children.forEach, from the k-th child on
LayoutChildren(tree, nodes, id, k, depth, currentX, collapsedMap) ==
    IF k > Len(tree[id]) THEN [nodes |-> nodes, ret |-> currentX]
    ELSE LET child == CalculateLayout(tree, nodes, tree[id][k], depth + 1, currentX,
                                      collapsedMap)
         IN  LayoutChildren(tree, child.nodes, id, k + 1, depth, child.ret, collapsedMap)

CalculateLayout(tree, nodes, id, depth, startX, collapsedMap) ==
    LET entered == [nodes EXCEPT ![id] =
                      [@ EXCEPT !.y = Px(depth * (NODE_HEIGHT + GAP_Y) + 50),
                                !.width = Px(NODE_WIDTH),
                                !.height = Px(NODE_HEIGHT),
                                !.collapsed = id \in collapsedMap]]
    IN  IF Len(tree[id]) = 0 \/ entered[id].collapsed
        THEN [nodes |-> [entered EXCEPT ![id].x = startX],
              ret |-> startX + Px(NODE_WIDTH + GAP_X)]
        ELSE LET done       == LayoutChildren(tree, entered, id, 1, depth, startX,
                                              collapsedMap)
                 firstChild == done.nodes[tree[id][1]]
                 lastChild  == done.nodes[tree[id][Len(tree[id])]]
             IN  [nodes |-> [done.nodes EXCEPT ![id].x = (firstChild.x + lastChild.x) \div 2],
                  ret |-> done.ret]

LayoutFrame == UNCHANGED <<serverVars, matchVars, appVars, filesVars>>

\* line 135: buildTreeData has made the tree of a robot
LayoutInit ==
    /\ children \in Trees
    /\ node = [i \in DOMAIN children |-> NewNode]
    /\ collapsedIds = {}
    /\ totalWidth = 0
    /\ layouts = "built"

\* lines 138-146: the layout is computed for the collapse state held at that
\* time (a new robot is laid out under the set left by the one before, in which
\* the id 'root' can remain), on the nodes as the layout before left them
Layout(ids) ==
    /\ layouts \in {"built", "laid"}
    /\ layouts' = IF layouts = "built" THEN "laid" ELSE "relaid"
    /\ collapsedIds' = ids
    /\ LET result == CalculateLayout(children, node, 1, 0, Px(50), ids)
       IN  /\ node' = result.nodes
           /\ totalWidth' = result.ret
    /\ UNCHANGED children
    /\ LayoutFrame

LayoutNext == \E ids \in SUBSET (1..MaxNodes) : ids \subseteq DOMAIN children /\ Layout(ids)

LayoutSpecInit == LayoutInit /\ ServerIdle /\ MatchIdle /\ AppInit /\ FilesIdle

LayoutSpec == LayoutSpecInit /\ [][LayoutNext]_vars

\* the parent of a node that is not the root
ParentOf(id) == CHOOSE p \in DOMAIN children : \E k \in 1..Len(children[p]) : children[p][k] = id

RECURSIVE DepthOf(_)
DepthOf(id) == IF id = 1 THEN 0 ELSE 1 + DepthOf(ParentOf(id))

\* lines 207 and 302: a node is drawn when no node above it is collapsed
RECURSIVE Visible(_)
Visible(id) == id = 1 \/ (ParentOf(id) \notin collapsedIds /\ Visible(ParentOf(id)))

Expanded(id) == children[id] # <<>> /\ id \notin collapsedIds

Distance(a, b) == IF a >= b THEN a - b ELSE b - a

Separated ==
    \A a, b \in DOMAIN children :
        (a # b /\ Visible(a) /\ Visible(b) /\ DepthOf(a) = DepthOf(b))
            => Distance(node[a].x, node[b].x) >= Px(NODE_WIDTH + GAP_X)

Centred(id) ==
    2 * node[id].x = node[children[id][1]].x + node[children[id][Len(children[id])]].x

Levelled(id) == node[id].y = Px(DepthOf(id) * (NODE_HEIGHT + GAP_Y) + 50)

\* C19, as stated: after calculateLayout, any two visible nodes of the same
\* depth are at least NODE_WIDTH + GAP_X apart in x, every expanded parent's x
\* is the midpoint of its first and last child's x, and every node's y is
\* depth * (NODE_HEIGHT + GAP_Y) + 50.
C19_LayoutOfEveryNode ==
    layouts # "built" =>
        /\ Separated
        /\ \A id \in DOMAIN children : Expanded(id) => Centred(id)
        /\ \A id \in DOMAIN children : Levelled(id)

\* C19, amended: after calculateLayout, any two visible nodes of the same
\* depth are at least NODE_WIDTH + GAP_X apart in x, every visible expanded
\* parent's x is the midpoint of its first and last child's x, and every
\* visible node's y is depth * (NODE_HEIGHT + GAP_Y) + 50; the nodes below a
\* collapsed node keep the fields they had before the call.
C19_LayoutOfVisibleNodes ==
    layouts # "built" =>
        /\ Separated
        /\ \A id \in DOMAIN children : (Visible(id) /\ Expanded(id)) => Centred(id)
        /\ \A id \in DOMAIN children : Visible(id) => Levelled(id)

C19_Witness ==
    /\ layouts = "relaid"
    /\ \E id \in DOMAIN children : ~Visible(id)
    /\ \E id \in DOMAIN children : Visible(id) /\ Expanded(id) /\ Len(children[id]) > 1
    /\ \E a, b \in DOMAIN children : a # b /\ Visible(a) /\ Visible(b) /\ DepthOf(a) = DepthOf(b)

(***************************************************************************)
(* getAllFiles and readAllEntries.  An entry is named by the names on its  *)
(* way from the drop; its fullPath is these names, each after a '/'.  A    *)
(* directory reader delivers the entries of its directory in the order of  *)
(* EntryNames, in batches of any length, and an empty batch once all are   *)
(* delivered.                                                              *)
(***************************************************************************)
EntryNames == <<"a", "b">>

\* a drop holds at most this many entries
MaxDropped == 4

Below(paths) == { Append(p, EntryNames[i]) : p \in paths, i \in DOMAIN EntryNames }

EntryPaths == Below({<<>>}) \cup Below(Below({<<>>})) \cup Below(Below(Below({<<>>})))

ParentPath(p) == SubSeq(p, 1, Len(p) - 1)

\* every entry below the drop lies in a directory of the drop
IsTree(t) == \A p \in DOMAIN t : Len(p) > 1 => (ParentPath(p) \in DOMAIN t /\ t[ParentPath(p)] = "dir")

DroppedTrees ==
    { t \in UNION { [S -> {"file", "dir"}] :
                      S \in { S \in SUBSET EntryPaths : Cardinality(S) <= MaxDropped } } :
        IsTree(t) }

\* the entries of directory p (of the drop, when p is empty), in order
ListDir(t, p) ==
    LET all == [i \in DOMAIN EntryNames |-> Append(p, EntryNames[i])]
    IN  SelectSeq(all, LAMBDA q : q \in DOMAIN t)

\* webkitGetAsEntry() returned null: the item is no file
NoEntry == <<>>

\* entry.fullPath
FullPathOf(p) == [i \in 1..(2 * Len(p)) |-> IF i % 2 = 1 THEN Slash ELSE p[i \div 2]]

\* the File that entry.file() gives
FileOf(p) == [name |-> p[Len(p)], of |-> FullPathOf(p)]

\* a key that loses every '/' of the fullPath
StripEverySlash(fullPath) == SelectSeq(fullPath, LAMBDA l : l # Slash)

\* line 21
StripLeadingSlash(fullPath) ==
    IF fullPath # <<>> /\ Head(fullPath) = Slash THEN Tail(fullPath) ELSE fullPath

\* Map.set: a key the map holds keeps its place
MapSet(map, key, file) ==
    IF \E i \in DOMAIN map : map[i].path = key
    THEN [i \in DOMAIN map |-> IF map[i].path = key THEN [path |-> key, file |-> file]
                               ELSE map[i]]
    ELSE Append(map, [path |-> key, file |-> file])

\* a readAllEntries that keeps the first batch only
PushFirstBatchOnly(collected, readEntries) ==
    IF collected = <<>> THEN readEntries ELSE collected

\* line 41: entries.push(...readEntries)
PushBatch(collected, readEntries) == collected \o readEntries

FilesFrame == UNCHANGED <<serverVars, matchVars, appVars, layoutVars>>

FilesInit ==
    /\ dropped \in DroppedTrees
    /\ itemList \in { ListDir(dropped, <<>>), <<NoEntry>> \o ListDir(dropped, <<>>) }
    /\ queue = <<>>
    /\ allFiles = <<>>
    /\ walk = "called"
    /\ entry = <<>>
    /\ entries = <<>>
    /\ reader = <<>>
    /\ visited = <<>>
    /\ batches = <<>>

\* lines 3-11
Enqueue ==
    /\ walk = "called"
    /\ queue' = SelectSeq(itemList, LAMBDA item : item # NoEntry)
    /\ walk' = "loop"
    /\ UNCHANGED <<dropped, itemList, allFiles, entry, entries, reader, visited, batches>>
    /\ FilesFrame

\* lines 13-17 and 23-25, 35-38: the next entry is taken from the queue, and
\* its file or the first batch of its entries is asked for
Shift ==
    /\ walk = "loop"
    /\ queue # <<>>
    /\ entry' = Head(queue)
    /\ queue' = Tail(queue)
    /\ visited' = Append(visited, Head(queue))
    /\ IF dropped[Head(queue)] = "file"
       THEN /\ walk' = "file"
            /\ UNCHANGED <<entries, reader>>
       ELSE /\ walk' = "readEntries"
            /\ entries' = <<>>
            /\ reader' = ListDir(dropped, Head(queue))
    /\ UNCHANGED <<dropped, itemList, allFiles, batches>>
    /\ FilesFrame

\* lines 16-22: file() calls resolve
FileResolved ==
    /\ walk = "file"
    /\ allFiles' = MapSet(allFiles, StripLeadingSlash(FullPathOf(entry)), FileOf(entry))
    /\ walk' = "loop"
    /\ UNCHANGED <<dropped, itemList, queue, entry, entries, reader, visited, batches>>
    /\ FilesFrame

\* lines 16-18: file() calls reject
FileRejected ==
    /\ walk = "file"
    /\ walk' = "rejected"
    /\ UNCHANGED <<dropped, itemList, queue, allFiles, entry, entries, reader, visited, batches>>
    /\ FilesFrame

\* lines 36-46 and 26: readEntries delivers a batch of n entries; after an
\* empty one readAllEntries returns and the entries join the queue
ReadBatch(n) ==
    /\ walk = "readEntries"
    /\ n = 0 <=> reader = <<>>
    /\ batches' = Append(batches, n)
    /\ reader' = SubSeq(reader, n + 1, Len(reader))
    /\ IF n > 0
       THEN /\ entries' = PushBatch(entries, SubSeq(reader, 1, n))
            /\ UNCHANGED <<queue, walk>>
       ELSE /\ queue' = queue \o entries
            /\ walk' = "loop"
            /\ UNCHANGED entries
    /\ UNCHANGED <<dropped, itemList, allFiles, entry, visited>>
    /\ FilesFrame

\* lines 36-38, 42-44: readEntries calls reject
ReadRejected ==
    /\ walk = "readEntries"
    /\ walk' = "rejected"
    /\ UNCHANGED <<dropped, itemList, queue, allFiles, entry, entries, reader, visited, batches>>
    /\ FilesFrame

\* lines 13 and 30
ReturnFiles ==
    /\ walk = "loop"
    /\ queue = <<>>
    /\ walk' = "returned"
    /\ UNCHANGED <<dropped, itemList, queue, allFiles, entry, entries, reader, visited, batches>>
    /\ FilesFrame

FilesNext ==
    \/ Enqueue
    \/ Shift
    \/ FileResolved
    \/ FileRejected
    \/ \E n \in 0..Len(EntryNames) : n <= Len(reader) /\ ReadBatch(n)
    \/ ReadRejected
    \/ ReturnFiles

FilesSpecInit == FilesInit /\ ServerIdle /\ MatchIdle /\ AppInit /\ LayoutIdle

\* the browser answers every file() and readEntries call, and the code between
\* two awaits runs to its end
FilesSpec == FilesSpecInit /\ [][FilesNext]_vars /\ WF_vars(FilesNext)

Settled == walk \in {"returned", "rejected"}

FileEntries == { p \in DOMAIN dropped : dropped[p] = "file" }

\* the map holds each file entry of the drop once, under its fullPath less
\* the leading '/', and nothing else
ExactlyTheFiles ==
    /\ \A i, j \in DOMAIN allFiles : allFiles[i].path = allFiles[j].path => i = j
    /\ { allFiles[i] : i \in DOMAIN allFiles }
         = { [path |-> Tail(FullPathOf(p)), file |-> FileOf(p)] : p \in FileEntries }

\* no entry is taken from the queue before an entry nearer to the drop
BreadthFirst == \A i, j \in DOMAIN visited : i < j => Len(visited[i]) <= Len(visited[j])

\* all the entries of the directory read last have been collected
AllBatchesCollected ==
    (walk = "loop" /\ visited # <<>> /\ dropped[entry] = "dir")
        => entries = ListDir(dropped, entry)

\* C20, as stated: getAllFiles does not end without returning; the map it
\* returns holds exactly the file entries of the drop, each under its fullPath
\* less one leading '/'; entries are taken breadth-first, and readAllEntries
\* collects every batch up to the first empty one.
C20_AlwaysReturnsAllFiles ==
    /\ walk # "rejected"
    /\ walk = "returned" => ExactlyTheFiles
    /\ BreadthFirst
    /\ AllBatchesCollected

\* C20, amended: getAllFiles ends: it returns, or it rejects when a file() or
\* readEntries call reports an error.  When it returns, the map holds exactly
\* the file entries of the drop, each under its fullPath less one leading '/';
\* entries are taken breadth-first, and readAllEntries collects every batch up
\* to the first empty one.
C20_SettlesWithAllFiles ==
    /\ <>Settled
    /\ [](walk = "returned" => ExactlyTheFiles)
    /\ []BreadthFirst
    /\ []AllBatchesCollected

C20_Witness ==
    /\ walk = "returned"
    /\ Len(allFiles) > 1
    /\ \E i \in DOMAIN batches : i < Len(batches) /\ batches[i] > 0 /\ batches[i + 1] > 0
    /\ \E i \in DOMAIN visited : Len(visited[i]) > 1 /\ dropped[visited[i]] = "dir"
    /\ NoEntry \in { itemList[i] : i \in DOMAIN itemList }

====
